---- MODULE Spec2Model ----
(***************************************************************************)
(* Duplicate-image detection and deletion planning of ImgKit-L             *)
(* (src/image_deduplication.py): the perceptual-hash clusterer             *)
(* ImageDeduplicator.find_duplicate_groups and the controller              *)
(* ImageDeduplicationController with its duplicate tree, its selection     *)
(* handlers and export_results.                                            *)
(***************************************************************************)
EXTENDS Integers, Sequences, FiniteSets, TLC

VARIABLES
    \* ---- one run of find_duplicate_groups (specification SpecHash) ----
    run_pc,          \* "off" | "loop" | "done": position in find_duplicate_groups
    run_paths,       \* image_paths argument
    run_hashes,      \* what compute_hash returns for each path (None: decode failure)
    run_threshold,   \* threshold argument
    run_i,           \* index of the next path of the for loop (1-based)
    hash_groups,     \* the insertion-ordered defaultdict(list): <<[key, members]>>
    run_result,      \* the returned duplicate_groups
    \* ---- one run of find_duplicate_groups_by_sift (specification SpecSift) ----
    sift_pc,          \* "off" | "extract" | "group" | "done"
    sift_paths,       \* image_paths argument
    sift_des,         \* per path what lines 76-82 give: "raises", "None" or "des"
    sift_knn,         \* per pair of paths the outcome of lines 107-111
    sift_min_matches, \* min_matches argument
    features,         \* keys of the features dict, in insertion order
    sift_result,      \* the returned groups
    \* ---- ImageDeduplicationController (specification Spec) ----
    image_paths,      \* self.image_paths
    duplicate_groups, \* self.duplicate_groups
    duplicate_tree,   \* self.duplicate_tree: per group item its file items [path, check]
    generated_files,  \* self.generated_files (the 'path' of each entry)
    detect_enabled,   \* self.detect_button.isEnabled()
    progress_visible, \* self.progress_bar.isVisible()
    export_enabled,   \* self.export_button.isEnabled()
    cleanup_enabled,  \* self.cleanup_button.isEnabled()
    worker,           \* self.worker_thread: the DeduplicationThread and its queued result
    fs,               \* the image files that exist on disk
    audit,            \* the file <directory>/duplicates.txt: absent, partial or complete
    pc,               \* position of the UI thread inside export_results
    export,           \* locals of the running export_results
    selected_by       \* the handler that last set check states, and whether it warned

hashVars == <<run_pc, run_paths, run_hashes, run_threshold, run_i, hash_groups, run_result>>

siftVars == <<sift_pc, sift_paths, sift_des, sift_knn, sift_min_matches, features,
              sift_result>>

clustererVars == <<hashVars, siftVars>>

ctlVars == <<image_paths, duplicate_groups, duplicate_tree, generated_files,
             detect_enabled, progress_visible, export_enabled, cleanup_enabled,
             worker, fs, audit, pc, export, selected_by>>

vars == <<hashVars, siftVars, ctlVars>>

-----------------------------------------------------------------------------
(* Bounds of the model *)

\* longest image_paths list given to one find_duplicate_groups run
MaxLen == 3

\* longest self.image_paths of the controller (specification Spec)
MaxImages == 2

\* longest image list whose clustering result is displayed (specifications
\* SpecSelect and SpecExport)
MaxShown == 4

\* most entries of self.generated_files
MaxGenerated == 1

\* longest image_paths list of the runs of specification SpecOrder, where two
\* groups of two can be returned
MaxRun == 4

-----------------------------------------------------------------------------
(* Values *)

Paths == {"a", "b", "c"}

\* compute_hash returns None when the image cannot be opened or hashed
None == "None"

\* str(imagehash.ImageHash) is a fixed-width lower-case hex string; the model
\* uses 4-bit hashes, i.e. one hex digit
HexDigits == <<"0", "1", "2", "3", "4", "5", "6", "7",
               "8", "9", "a", "b", "c", "d", "e", "f">>

\* sample fingerprints 0000, 0001, 1010, 1011, 1111
Fingerprints == {"0", "1", "a", "b", "f"}

BitPositions == 0 .. 3

\* values the threshold slider (range 0..20) can give
Thresholds == {0, 1, 4}

\* thresholds of the find_duplicate_groups runs: with 2 an image can be within
\* threshold of two representatives that are farther than that from each other
HashThresholds == Thresholds \cup {2}

Min(S) == CHOOSE x \in S : \A y \in S : x <= y

RECURSIVE SeqsUpTo(_, _)
SeqsUpTo(S, n) ==
    IF n = 0 THEN {<<>>}
    ELSE LET shorter == SeqsUpTo(S, n - 1)
         IN  shorter \cup {Append(s, x) : s \in {t \in shorter : Len(t) = n - 1}, x \in S}

-----------------------------------------------------------------------------
(* ImageDeduplicator.find_duplicate_groups *)

\* int(h, 16)
IntOfHex(h) == (CHOOSE n \in 1 .. 16 : HexDigits[n] = h) - 1

Bit(n, i) == (n \div (2 ^ i)) % 2

\* x ^ y on the bits of the hash
RECURSIVE XorFrom(_, _, _)
XorFrom(x, y, i) ==
    IF i \notin BitPositions THEN 0
    ELSE ((Bit(x, i) + Bit(y, i)) % 2) * (2 ^ i) + XorFrom(x, y, i + 1)

Xor(x, y) == XorFrom(x, y, 0)

\* bin(n).count("1")
CountOnes(n) == Cardinality({i \in BitPositions : Bit(n, i) = 1})

\* hamming_distance = bin(int(img_hash, 16) ^ int(existing_hash, 16)).count("1")
HammingDistance(img_hash, existing_hash) ==
    CountOnes(Xor(IntOfHex(img_hash), IntOfHex(existing_hash)))

\* the condition of line 53 with < in place of <=
MatchesLt(hamming_distance, threshold) == hamming_distance < threshold

\* if hamming_distance <= threshold
Matches(hamming_distance, threshold) == hamming_distance <= threshold

\* the for loop over list(hash_groups.keys()) with its break: the index of the
\* first key, in insertion order, that matches; 0 when matched stays False
FirstMatch(hg, img_hash, threshold) ==
    LET hits == {k \in 1 .. Len(hg) :
                    Matches(HammingDistance(img_hash, hg[k].key), threshold)}
    IN  IF hits = {} THEN 0 ELSE Min(hits)

\* hash_groups[key].insert(0, path) in place of append
DictPrepend(hg, key, path) ==
    LET at == {k \in 1 .. Len(hg) : hg[k].key = key}
    IN  IF at = {}
        THEN Append(hg, [key |-> key, members |-> <<path>>])
        ELSE LET k == Min(at)
             IN  [hg EXCEPT ![k].members = <<path>> \o @]

\* hash_groups[key].append(path) on the defaultdict: a missing key is inserted
\* at the end with an empty list first
DictAppend(hg, key, path) ==
    LET at == {k \in 1 .. Len(hg) : hg[k].key = key}
    IN  IF at = {}
        THEN Append(hg, [key |-> key, members |-> <<path>>])
        ELSE LET k == Min(at)
             IN  [hg EXCEPT ![k].members = Append(@, path)]

\* one iteration of "for path in image_paths" (lines 44-59)
LoopBody(hg, path, img_hash, threshold) ==
    IF img_hash = None
    THEN hg                                             \* continue
    ELSE LET k == FirstMatch(hg, img_hash, threshold)
         IN  IF k # 0
             THEN DictAppend(hg, hg[k].key, path)       \* matched, break
             ELSE DictAppend(hg, img_hash, path)        \* not matched

RECURSIVE SelectGroups(_)
\* [group for group in hash_groups.values() if len(group) > 1]
SelectGroups(hg) ==
    IF hg = <<>> THEN <<>>
    ELSE LET rest == SelectGroups(Tail(hg))
         IN  IF Len(Head(hg).members) > 1
             THEN <<Head(hg).members>> \o rest
             ELSE rest

RECURSIVE HashGroupsAfter(_, _, _, _)
\* hash_groups after the whole for loop, starting from hg
HashGroupsAfter(hg, paths, hashes, threshold) ==
    IF paths = <<>> THEN hg
    ELSE HashGroupsAfter(LoopBody(hg, Head(paths), hashes[Head(paths)], threshold),
                         Tail(paths), hashes, threshold)

\* find_duplicate_groups(image_paths, 'phash', threshold)
FindDuplicateGroups(paths, hashes, threshold) ==
    SelectGroups(HashGroupsAfter(<<>>, paths, hashes, threshold))

-----------------------------------------------------------------------------
(* ImageDeduplicator.find_duplicate_groups_by_sift *)

\* what lines 76-82 give for one image: an exception (the image cannot be
\* opened), des None (no keypoint found) or a descriptor array
DesOutcomes == {"raises", "None", "des"}

\* the pairs of different paths knnMatch can be called on
PathPairs == {pq \in SUBSET Paths : Cardinality(pq) = 2}

\* lines 107-111 for one pair: knnMatch or the unpacking "for m, n" raises, or
\* good_matches ends with `good` entries
KnnOutcomes == {[raises |-> TRUE, good |-> 0],
                [raises |-> FALSE, good |-> 0],
                [raises |-> FALSE, good |-> 2]}

RECURSIVE FeatureKeysRaisesKept(_, _, _)
\* the loop of lines 74-87 with the key assigned before the image is read, so
\* that an image whose reading raises stays in features
FeatureKeysRaisesKept(keys, paths, des) ==
    IF paths = <<>> THEN keys
    ELSE LET path == Head(paths)
             have == \E k \in 1 .. Len(keys) : keys[k] = path
         IN  FeatureKeysRaisesKept(IF des[path] # "None" /\ ~have
                                   THEN Append(keys, path) ELSE keys,
                                   Tail(paths), des)

RECURSIVE FeatureKeysNoneKept(_, _, _)
\* the loop of lines 74-87 without the test of line 83
FeatureKeysNoneKept(keys, paths, des) ==
    IF paths = <<>> THEN keys
    ELSE LET path == Head(paths)
             have == \E k \in 1 .. Len(keys) : keys[k] = path
         IN  FeatureKeysNoneKept(IF des[path] # "raises" /\ ~have
                                 THEN Append(keys, path) ELSE keys,
                                 Tail(paths), des)

RECURSIVE FeatureKeys(_, _, _)
\* the loop of lines 74-87: features[path] = des when des is not None; a key
\* assigned again keeps its place in the dict
FeatureKeys(keys, paths, des) ==
    IF paths = <<>> THEN keys
    ELSE LET path == Head(paths)
             have == \E k \in 1 .. Len(keys) : keys[k] = path
         IN  FeatureKeys(IF des[path] = "des" /\ ~have THEN Append(keys, path) ELSE keys,
                         Tail(paths), des)

\* lines 106-118: path2 joins the group when knnMatch did not raise and
\* len(good_matches) >= min_matches
EnoughMatches(outcome, min_matches) ==
    /\ ~outcome.raises
    /\ outcome.good >= min_matches

RECURSIVE SiftInnerChained(_, _, _, _, _, _)
\* the loop of lines 101-118 with des1 taken from the member that joined last
\* instead of from path1
SiftInnerChained(paths, knn, min_matches, j, group, processed) ==
    IF j > Len(paths) THEN <<group, processed>>
    ELSE IF paths[j] \in processed
    THEN SiftInnerChained(paths, knn, min_matches, j + 1, group, processed)
    ELSE IF EnoughMatches(knn[{group[Len(group)], paths[j]}], min_matches)
    THEN SiftInnerChained(paths, knn, min_matches, j + 1, Append(group, paths[j]),
                          processed \cup {paths[j]})
    ELSE SiftInnerChained(paths, knn, min_matches, j + 1, group, processed)

RECURSIVE SiftInnerNoMark(_, _, _, _, _, _)
\* the loop of lines 101-118 without processed.add(path2) of line 115
SiftInnerNoMark(paths, knn, min_matches, j, group, processed) ==
    IF j > Len(paths) THEN <<group, processed>>
    ELSE IF paths[j] \in processed
    THEN SiftInnerNoMark(paths, knn, min_matches, j + 1, group, processed)
    ELSE IF EnoughMatches(knn[{group[1], paths[j]}], min_matches)
    THEN SiftInnerNoMark(paths, knn, min_matches, j + 1, Append(group, paths[j]),
                         processed)
    ELSE SiftInnerNoMark(paths, knn, min_matches, j + 1, group, processed)

RECURSIVE SiftInner(_, _, _, _, _, _)
\* the loop of lines 101-118 from index j on: <<group, processed>> after it
SiftInner(paths, knn, min_matches, j, group, processed) ==
    IF j > Len(paths) THEN <<group, processed>>
    ELSE IF paths[j] \in processed
    THEN SiftInner(paths, knn, min_matches, j + 1, group, processed)
    ELSE IF EnoughMatches(knn[{group[1], paths[j]}], min_matches)
    THEN SiftInner(paths, knn, min_matches, j + 1, Append(group, paths[j]),
                   processed \cup {paths[j]})
    ELSE SiftInner(paths, knn, min_matches, j + 1, group, processed)

RECURSIVE SiftOuter(_, _, _, _, _, _)
\* the loop of lines 94-122 from index i on: the groups after it
SiftOuter(paths, knn, min_matches, i, groups, processed) ==
    IF i > Len(paths) THEN groups
    ELSE IF paths[i] \in processed
    THEN SiftOuter(paths, knn, min_matches, i + 1, groups, processed)
    ELSE LET inner == SiftInner(paths, knn, min_matches, i + 1, <<paths[i]>>, processed)
         IN  IF Len(inner[1]) > 1
             THEN SiftOuter(paths, knn, min_matches, i + 1, Append(groups, inner[1]),
                            inner[2] \cup {paths[i]})
             ELSE SiftOuter(paths, knn, min_matches, i + 1, groups, inner[2])

\* lines 90-124 on the keys of features
GroupFeatures(keys, knn, min_matches) == SiftOuter(keys, knn, min_matches, 1, <<>>, {})

\* find_duplicate_groups_by_sift(image_paths, ratio, min_matches)
FindDuplicateGroupsBySift(paths, des, knn, min_matches) ==
    GroupFeatures(FeatureKeys(<<>>, paths, des), knn, min_matches)

-----------------------------------------------------------------------------
(* The duplicate tree and the itemChanged signal *)

\* QTreeWidget.itemChanged is connected to on_selection_changed (line 349), so
\* every change of an item already in the tree (setText, setCheckState,
\* setFlags, a click on its check box) calls the handler synchronously; a
\* setCheckState to the value the item already has changes nothing and emits
\* nothing.  A file item is [path, check]; check is "NoData" between the
\* creation of the item and its first setCheckState and reads as Unchecked.

Checked == "Checked"
Unchecked == "Unchecked"
NoData == "NoData"

\* item.checkState(0): an item without check data reads as Unchecked
CheckStateOf(item) == IF item.check = NoData THEN Unchecked ELSE item.check

\* the loop of lines 508-511
SelectedCount(items) ==
    Cardinality({i \in 1 .. Len(items) : CheckStateOf(items[i]) = Checked})

\* on_selection_changed with the re-check applied to the first child
RecheckFirst(items, j) ==
    IF SelectedCount(items) = 0
    THEN [items EXCEPT ![1].check = Checked]
    ELSE items

\* on_selection_changed without its guard (lines 513-515 dropped)
NoRecheck(items, j) == items

\* on_selection_changed(item, 0) for the file item j of a group: with no child
\* Checked the item is checked again (the nested itemChanged then counts 1
\* and returns) and the warning is shown
OnSelectionChanged(items, j) ==
    IF SelectedCount(items) = 0
    THEN [items EXCEPT ![j].check = Checked]
    ELSE items

\* whether on_selection_changed(item j) shows its warning
Warns(items, j) == SelectedCount(items) = 0

\* item.setCheckState(0, state) on child j, the emitted itemChanged included
SetCheckState(items, j, state) ==
    IF items[j].check = state
    THEN items
    ELSE OnSelectionChanged([items EXCEPT ![j].check = state], j)

\* whether that setCheckState ends in the warning of line 516
SetCheckStateWarns(items, j, state) ==
    /\ items[j].check # state
    /\ Warns([items EXCEPT ![j].check = state], j)

\* lines 472-484 for one file_path: the item is created under group_item, then
\* setText(0), setText(1) (column 1: the handler returns at once),
\* setCheckState(0, Unchecked) and setFlags, each emitting itemChanged
AddFileItem(items, file_path) ==
    LET created == Append(items, [path |-> file_path, check |-> NoData])
        j       == Len(created)
        texted  == OnSelectionChanged(created, j)
        set     == SetCheckState(texted, j, Unchecked)
    IN  OnSelectionChanged(set, j)

RECURSIVE FillGroupItem(_, _)
\* for file_path in group (lines 471-484)
FillGroupItem(items, group) ==
    IF group = <<>> THEN items
    ELSE FillGroupItem(AddFileItem(items, Head(group)), Tail(group))

\* the tree on_detection_complete builds (lines 463-486)
TreeOf(groups) == [g \in 1 .. Len(groups) |-> FillGroupItem(<<>>, groups[g])]

RECURSIVE SetAllFrom(_, _, _)
\* for j in range(childCount()): child(j).setCheckState(0, state), from child j on
SetAllFrom(items, j, state) ==
    IF j > Len(items) THEN items
    ELSE SetAllFrom(SetCheckState(items, j, state), j + 1, state)

RECURSIVE WarnsAllFrom(_, _, _)
WarnsAllFrom(items, j, state) ==
    IF j > Len(items) THEN FALSE
    ELSE \/ SetCheckStateWarns(items, j, state)
         \/ WarnsAllFrom(SetCheckState(items, j, state), j + 1, state)

\* select_all_files on one group item (lines 521-523)
SelectAllGroup(items) == SetAllFrom(items, 1, Checked)

\* deselect_all_files on one group item (lines 528-534)
DeselectAllGroup(items) ==
    LET cleared == SetAllFrom(items, 1, Unchecked)
    IN  IF Len(cleared) > 0 THEN SetCheckState(cleared, 1, Checked) ELSE cleared

\* a click on the check box of a group item (ItemIsAutoTristate, line 469): a
\* fully checked group is set Unchecked child by child, any other is set Checked
ClickGroup(items) ==
    IF \A i \in 1 .. Len(items) : CheckStateOf(items[i]) = Checked
    THEN SetAllFrom(items, 1, Unchecked)
    ELSE SetAllFrom(items, 1, Checked)

ClickGroupWarns(items) ==
    IF \A i \in 1 .. Len(items) : CheckStateOf(items[i]) = Checked
    THEN WarnsAllFrom(items, 1, Unchecked)
    ELSE FALSE

-----------------------------------------------------------------------------
(* auto_select_files *)

\* file sizes (KB) and modification times of the image files
SizeOf == [p \in Paths |-> IF p = "b" THEN 50 ELSE 100]
MTimeOf == [p \in Paths |-> IF p = "a" THEN 1 ELSE IF p = "b" THEN 2 ELSE 3]

\* (size, mtime) of lines 545-550: (0, 0) when getsize/getmtime raise
FileKey(files, p) == IF p \in files THEN <<SizeOf[p], MTimeOf[p]>> ELSE <<0, 0>>

KeyLess(k1, k2) == k1[1] < k2[1] \/ (k1[1] = k2[1] /\ k1[2] < k2[2])

RECURSIVE SortedAscending(_, _, _)
\* file_info.sort(key=(size, mtime)) without reverse=True
SortedAscending(items, files, todo) ==
    IF todo = {} THEN <<>>
    ELSE LET best == CHOOSE j \in todo : \A i \in todo \ {j} :
                        \/ KeyLess(FileKey(files, items[j].path), FileKey(files, items[i].path))
                        \/ /\ FileKey(files, items[i].path) = FileKey(files, items[j].path)
                           /\ j < i
         IN  <<best>> \o SortedAscending(items, files, todo \ {best})

RECURSIVE SortedIndexes(_, _, _)
\* file_info.sort(key=(size, mtime), reverse=True): a stable sort, so equal
\* keys keep their original order; todo is the set of child indexes left
SortedIndexes(items, files, todo) ==
    IF todo = {} THEN <<>>
    ELSE LET best == CHOOSE j \in todo : \A i \in todo \ {j} :
                        \/ KeyLess(FileKey(files, items[i].path), FileKey(files, items[j].path))
                        \/ /\ FileKey(files, items[i].path) = FileKey(files, items[j].path)
                           /\ j < i
         IN  <<best>> \o SortedIndexes(items, files, todo \ {best})

RECURSIVE ApplyRanking(_, _, _)
\* lines 556-560: the first of the ranking is Checked, the others Unchecked
ApplyRanking(items, order, idx) ==
    IF idx > Len(order) THEN items
    ELSE ApplyRanking(SetCheckState(items, order[idx],
                                    IF idx = 1 THEN Checked ELSE Unchecked),
                      order, idx + 1)

\* auto_select_files on one group item (lines 539-560)
AutoSelectGroup(items, files) ==
    ApplyRanking(items, SortedIndexes(items, files, 1 .. Len(items)), 1)

-----------------------------------------------------------------------------
(* get_selected_files_to_delete *)

\* the inner loop collecting the Checked items instead of the Unchecked ones
CheckedOf(items) ==
    LET F[i \in 0 .. Len(items)] ==
            IF i = 0 THEN <<>>
            ELSE IF CheckStateOf(items[i]) = Checked
                 THEN Append(F[i - 1], items[i].path)
                 ELSE F[i - 1]
    IN  F[Len(items)]

RECURSIVE UncheckedOf(_)
\* the inner loop of lines 568-571 on one group item
UncheckedOf(items) ==
    IF items = <<>> THEN <<>>
    ELSE LET rest == UncheckedOf(Tail(items))
         IN  IF CheckStateOf(Head(items)) = Unchecked
             THEN <<Head(items).path>> \o rest
             ELSE rest

RECURSIVE GetSelectedFrom(_, _)
GetSelectedFrom(tree, g) ==
    IF g > Len(tree) THEN <<>>
    ELSE UncheckedOf(tree[g]) \o GetSelectedFrom(tree, g + 1)

\* get_selected_files_to_delete (lines 562-573)
GetSelectedFilesToDelete(tree) == GetSelectedFrom(tree, 1)

-----------------------------------------------------------------------------
(* ImageDeduplicationController: state after __init__ *)

\* the directory the user can choose in export_results; "" is a cancelled dialog
Dirs == {"out"}
TxtFile(directory) == <<directory, "duplicates.txt">>

\* what the image files of the controller's runs hash to: 0000, 0001, 1111
HashOf == [p \in Paths |-> IF p = "a" THEN "0" ELSE IF p = "b" THEN "1" ELSE "f"]

\* what one dialog of add_images can return: up to two of these files
DialogPaths == {"a", "b"}
DialogPicks == SeqsUpTo(DialogPaths, 2)

\* duplicates.txt: no such file, a truncated file, or the complete record of
\* lines 594-602 (all groups, then the files selected for deletion)
NoAudit == [state |-> "absent", groups |-> <<>>, selected |-> <<>>, lines |-> <<>>]
PartialAudit == [state |-> "partial", groups |-> <<>>, selected |-> <<>>, lines |-> <<>>]

\* the lines f.write produces: the title, an empty line, the header "组 n:", the
\* indented path "  <path>", the header "用户选择删除的文件 (n 个):"
TitleLine == [kind |-> "title", n |-> 0, path |-> ""]
EmptyLine == [kind |-> "empty", n |-> 0, path |-> ""]
GroupLine(i) == [kind |-> "group", n |-> i, path |-> ""]
PathLine(file_path) == [kind |-> "path", n |-> 0, path |-> file_path]
SelectedLine(count) == [kind |-> "selected", n |-> count, path |-> ""]

\* for file_path in ...: f.write(f"  {file_path}\n") (lines 597-598, 601-602)
PathLines(file_paths) == [k \in 1 .. Len(file_paths) |-> PathLine(file_paths[k])]

RECURSIVE GroupLinesFrom(_, _)
\* the loop of lines 595-598 from group i on
GroupLinesFrom(groups, i) ==
    IF i > Len(groups) THEN <<>>
    ELSE <<EmptyLine, GroupLine(i)>> \o PathLines(groups[i]) \o GroupLinesFrom(groups, i + 1)

\* lines 594-602 with the loop of lines 601-602 left out
AuditLinesNoPlan(groups, files_to_delete) ==
    <<TitleLine>> \o GroupLinesFrom(groups, 1)
        \o <<EmptyLine, SelectedLine(Len(files_to_delete))>>

\* the content lines 594-602 write to duplicates.txt
AuditLines(groups, files_to_delete) ==
    <<TitleLine>> \o GroupLinesFrom(groups, 1)
        \o <<EmptyLine, SelectedLine(Len(files_to_delete))>> \o PathLines(files_to_delete)

AuditRecord(groups, files_to_delete) ==
    [state |-> "complete", groups |-> groups, selected |-> files_to_delete,
     lines |-> AuditLines(groups, files_to_delete)]

\* the entries of method_combo (line 291): "感知哈希" and "SIFT特征匹配"
Methods == {"phash", "sift"}

\* what lines 76-82 and 107-111 give on the image files of the controller's
\* runs: every file has descriptors; a and b have 2 good matches, c has none
\* with either
DesOf == [p \in Paths |-> "des"]
KnnOf == [pq \in PathPairs |-> [raises |-> FALSE,
                                 good |-> IF pq = {"a", "b"} THEN 2 ELSE 0]]

\* the value of progress_signal.emit(100) (line 238)
Complete == 100

NoWorker == [state |-> "none", paths |-> <<>>, alias |-> FALSE, method |-> "none",
             threshold |-> 0, result |-> <<>>, progress |-> <<>>]

NoExport == [plan |-> <<>>, idx |-> 0, reply |-> "none", deleted_count |-> 0,
             error_count |-> 0, outcomes |-> <<>>]

Op(name, note) == [name |-> name, note |-> note]

CtlInit ==
    /\ image_paths = <<>>
    /\ duplicate_groups = <<>>
    /\ duplicate_tree = <<>>
    /\ generated_files = <<>>
    /\ detect_enabled = TRUE
    /\ progress_visible = FALSE
    /\ export_enabled = FALSE
    /\ cleanup_enabled = FALSE
    /\ worker = NoWorker
    /\ fs = Paths
    /\ audit = NoAudit
    /\ pc = "idle"
    /\ export = NoExport
    /\ selected_by = Op("__init__", "")

HashOff ==
    /\ run_pc = "off"
    /\ run_paths = <<>>
    /\ run_hashes = [p \in Paths |-> None]
    /\ run_threshold = 0
    /\ run_i = 1
    /\ hash_groups = <<>>
    /\ run_result = <<>>

SiftOff ==
    /\ sift_pc = "off"
    /\ sift_paths = <<>>
    /\ sift_des = [p \in Paths |-> "None"]
    /\ sift_knn = [pq \in PathPairs |-> [raises |-> FALSE, good |-> 0]]
    /\ sift_min_matches = 0
    /\ features = <<>>
    /\ sift_result = <<>>

ClustererOff == HashOff /\ SiftOff

-----------------------------------------------------------------------------
(* add_images, clear_list, detect_duplicates and the worker thread *)

RECURSIVE ExistingOf(_, _)
\* the files of the dialog that pass os.path.exists, in order (lines 402-416)
ExistingOf(files, disk) ==
    IF files = <<>> THEN <<>>
    ELSE IF Head(files) \in disk
         THEN <<Head(files)>> \o ExistingOf(Tail(files), disk)
         ELSE ExistingOf(Tail(files), disk)

\* add_images: self.image_paths.append mutates the list object, which a running
\* worker shares as long as clear_list has not rebound self.image_paths
AddImages ==
    /\ pc = "idle"
    /\ \E files \in DialogPicks :
        /\ Len(image_paths) + Len(files) <= MaxImages
        /\ IF files = <<>>
           THEN UNCHANGED <<image_paths, worker>>
           ELSE LET added == ExistingOf(files, fs)
                IN  /\ image_paths' = image_paths \o added
                    /\ worker' = IF worker.state = "running" /\ worker.alias
                                 THEN [worker EXCEPT !.paths = @ \o added]
                                 ELSE worker
    /\ UNCHANGED <<duplicate_groups, duplicate_tree, generated_files, detect_enabled,
                   progress_visible, export_enabled, cleanup_enabled, fs, audit, pc,
                   export, selected_by>>
    /\ UNCHANGED clustererVars

\* clear_list (lines 423-431)
ClearList ==
    /\ pc = "idle"
    /\ image_paths' = <<>>
    /\ duplicate_tree' = <<>>
    /\ duplicate_groups' = <<>>
    /\ export_enabled' = FALSE
    /\ cleanup_enabled' = FALSE
    /\ worker' = [worker EXCEPT !.alias = FALSE]
    /\ selected_by' = Op("clear_list", "")
    /\ UNCHANGED <<generated_files, detect_enabled, progress_visible, fs, audit, pc, export>>
    /\ UNCHANGED clustererVars

\* detect_duplicates without line 439: the detect button stays enabled
DetectKeepsButtonEnabled ==
    /\ pc = "idle"
    /\ detect_enabled
    /\ \E method \in Methods, threshold \in Thresholds :
        IF image_paths = <<>>
        THEN UNCHANGED <<detect_enabled, progress_visible, worker>>
        ELSE /\ detect_enabled' = detect_enabled
             /\ progress_visible' = TRUE
             /\ worker' = [state |-> "running", paths |-> image_paths, alias |-> TRUE,
                           method |-> method, threshold |-> threshold,
                           result |-> <<>>, progress |-> <<>>]
    /\ UNCHANGED <<image_paths, duplicate_groups, duplicate_tree, generated_files,
                   export_enabled, cleanup_enabled, fs, audit, pc, export, selected_by>>
    /\ UNCHANGED clustererVars

\* detect_duplicates (lines 433-458): a click on the enabled detect button
DetectDuplicates ==
    /\ pc = "idle"
    /\ detect_enabled
    /\ \E method \in Methods, threshold \in Thresholds :
        IF image_paths = <<>>
        THEN UNCHANGED <<detect_enabled, progress_visible, worker>>
        ELSE /\ detect_enabled' = FALSE
             /\ progress_visible' = TRUE
             /\ worker' = [state |-> "running", paths |-> image_paths, alias |-> TRUE,
                           method |-> method, threshold |-> threshold,
                           result |-> <<>>, progress |-> <<>>]
    /\ UNCHANGED <<image_paths, duplicate_groups, duplicate_tree, generated_files,
                   export_enabled, cleanup_enabled, fs, audit, pc, export, selected_by>>
    /\ UNCHANGED clustererVars

\* lines 231-236: the clusterer the method selects, with the slider value as
\* threshold or as min_matches
ClusterBy(method, paths, threshold) ==
    IF method = "phash"
    THEN FindDuplicateGroups(paths, HashOf, threshold)
    ELSE FindDuplicateGroupsBySift(paths, DesOf, KnnOf, threshold)

\* DeduplicationThread.run without line 244: after an exception only the log
\* line is emitted and the thread ends with no result queued
WorkerRunSilentOnError ==
    /\ worker.state = "running"
    /\ \E returned \in BOOLEAN :
        worker' = [state |-> IF returned THEN "emitted" ELSE "failed",
                   paths |-> <<>>, alias |-> FALSE,
                   method |-> "none", threshold |-> 0,
                   result |-> IF returned
                              THEN ClusterBy(worker.method, worker.paths,
                                             worker.threshold)
                              ELSE <<>>,
                   progress |-> IF returned THEN <<Complete>> ELSE <<>>]
    /\ UNCHANGED <<image_paths, duplicate_groups, duplicate_tree, generated_files,
                   detect_enabled, progress_visible, export_enabled, cleanup_enabled,
                   fs, audit, pc, export, selected_by>>
    /\ UNCHANGED clustererVars

\* DeduplicationThread.run (lines 226-244): progress 100 and the groups, or
\* only [] after an exception, are emitted and queued for the UI thread
WorkerRun ==
    /\ worker.state = "running"
    /\ \E returned \in BOOLEAN :
        worker' = [state |-> "emitted", paths |-> <<>>, alias |-> FALSE,
                   method |-> "none", threshold |-> 0,
                   result |-> IF returned
                              THEN ClusterBy(worker.method, worker.paths,
                                             worker.threshold)
                              ELSE <<>>,
                   progress |-> IF returned THEN <<Complete>> ELSE <<>>]
    /\ UNCHANGED <<image_paths, duplicate_groups, duplicate_tree, generated_files,
                   detect_enabled, progress_visible, export_enabled, cleanup_enabled,
                   fs, audit, pc, export, selected_by>>
    /\ UNCHANGED clustererVars

\* on_detection_complete (lines 460-499), run by the UI thread's event loop,
\* also the nested one of an open message box of export_results
OnDetectionComplete ==
    /\ worker.state = "emitted"
    /\ pc # "deleting"
    /\ duplicate_groups' = worker.result
    /\ duplicate_tree' = TreeOf(worker.result)
    /\ detect_enabled' = TRUE
    /\ progress_visible' = FALSE
    /\ export_enabled' = (worker.result # <<>>)
    /\ worker' = NoWorker
    /\ selected_by' = Op("on_detection_complete", "")
    /\ UNCHANGED <<image_paths, generated_files, cleanup_enabled, fs, audit, pc, export>>
    /\ UNCHANGED clustererVars

-----------------------------------------------------------------------------
(* Selection handlers *)

selectionFrame == <<image_paths, duplicate_groups, generated_files, detect_enabled,
                    progress_visible,
                    export_enabled, cleanup_enabled, worker, fs, audit, pc, export>>

\* the user clicks the check box of file item j of group g: the view sets the
\* opposite check state and itemChanged calls on_selection_changed
UserToggle ==
    /\ pc = "idle"
    /\ \E g \in 1 .. Len(duplicate_tree) : \E j \in 1 .. Len(duplicate_tree[g]) :
        LET items == duplicate_tree[g]
            state == IF CheckStateOf(items[j]) = Checked THEN Unchecked ELSE Checked
        IN  /\ duplicate_tree' = [duplicate_tree EXCEPT ![g] = SetCheckState(items, j, state)]
            /\ selected_by' = Op("on_selection_changed",
                             IF SetCheckStateWarns(items, j, state)
                             THEN "rejected" ELSE "")
    /\ UNCHANGED selectionFrame
    /\ UNCHANGED clustererVars

\* the user clicks the check box of group item g
UserClickGroup ==
    /\ pc = "idle"
    /\ \E g \in 1 .. Len(duplicate_tree) :
        /\ duplicate_tree' = [duplicate_tree EXCEPT ![g] = ClickGroup(@)]
        /\ selected_by' = Op("on_selection_changed",
                         IF ClickGroupWarns(duplicate_tree[g])
                         THEN "group_rejected" ELSE "group")
    /\ UNCHANGED selectionFrame
    /\ UNCHANGED clustererVars

\* select_all_files (lines 518-523)
SelectAllFiles ==
    /\ pc = "idle"
    /\ duplicate_tree' = [g \in 1 .. Len(duplicate_tree) |-> SelectAllGroup(duplicate_tree[g])]
    /\ selected_by' = Op("select_all_files", "")
    /\ UNCHANGED selectionFrame
    /\ UNCHANGED clustererVars

\* deselect_all_files (lines 525-534)
DeselectAllFiles ==
    /\ pc = "idle"
    /\ duplicate_tree' = [g \in 1 .. Len(duplicate_tree) |-> DeselectAllGroup(duplicate_tree[g])]
    /\ selected_by' = Op("deselect_all_files", "")
    /\ UNCHANGED selectionFrame
    /\ UNCHANGED clustererVars

\* auto_select_files (lines 536-560)
AutoSelectFiles ==
    /\ pc = "idle"
    /\ duplicate_tree' = [g \in 1 .. Len(duplicate_tree) |->
                             AutoSelectGroup(duplicate_tree[g], fs)]
    /\ selected_by' = Op("auto_select_files", "")
    /\ UNCHANGED selectionFrame
    /\ UNCHANGED clustererVars

-----------------------------------------------------------------------------
(* export_results *)

\* pc is the modal dialog export_results is waiting in, or its delete loop:
\*   "idle"     the handler is not running
\*   "info"     QMessageBox.information of line 588 (no file selected)
\*   "error"    QMessageBox.critical of line 649 (the except clause)
\*   "confirm"  QMessageBox.question of lines 610-614
\*   "deleting" the for loop of lines 620-634
\*   "report"   QMessageBox.information of lines 636-639

exportFrame == <<image_paths, duplicate_groups, duplicate_tree, detect_enabled,
                 progress_visible,
                 export_enabled, worker, selected_by>>

\* lines 575-614 with the block of lines 591-607 (the audit record) left out
ExportWithoutAudit ==
    /\ pc = "idle"
    /\ export_enabled
    /\ Len(generated_files) < MaxGenerated
    /\ \E directory \in Dirs \cup {""} :
        LET files_to_delete == GetSelectedFilesToDelete(duplicate_tree)
        IN  IF duplicate_groups = <<>> \/ directory = ""
            THEN UNCHANGED <<generated_files, audit, pc, export>>
            ELSE IF files_to_delete = <<>>
            THEN /\ pc' = "info"
                 /\ UNCHANGED <<generated_files, audit, export>>
            ELSE /\ pc' = "confirm"
                 /\ export' = [NoExport EXCEPT !.plan = files_to_delete]
                 /\ UNCHANGED <<generated_files, audit>>
    /\ UNCHANGED <<cleanup_enabled, fs>>
    /\ UNCHANGED exportFrame
    /\ UNCHANGED clustererVars

\* lines 575-614 without the return of lines 587-589
ExportEmptyPlanGoesOn ==
    /\ pc = "idle"
    /\ export_enabled
    /\ Len(generated_files) < MaxGenerated
    /\ \E directory \in Dirs \cup {""} :
        LET files_to_delete == GetSelectedFilesToDelete(duplicate_tree)
        IN  IF duplicate_groups = <<>> \/ directory = ""
            THEN UNCHANGED <<generated_files, audit, pc, export>>
            ELSE /\ audit' = AuditRecord(duplicate_groups, files_to_delete)
                 /\ generated_files' = Append(generated_files, TxtFile(directory))
                 /\ pc' = IF files_to_delete = <<>> THEN "info" ELSE "confirm"
                 /\ export' = [NoExport EXCEPT !.plan = files_to_delete]
    /\ UNCHANGED <<cleanup_enabled, fs>>
    /\ UNCHANGED exportFrame
    /\ UNCHANGED clustererVars

\* lines 575-614: up to the first dialog the handler waits in.  write is what
\* happens in the "with open(txt_file, 'w')" block: "ok", "open_fails"
\* (nothing written) or "write_fails" (the file is left truncated); both
\* failures reach the except clause of line 647
ExportBegin ==
    /\ pc = "idle"
    /\ export_enabled
    /\ Len(generated_files) < MaxGenerated
    /\ \E directory \in Dirs \cup {""}, write \in {"ok", "open_fails", "write_fails"} :
        LET files_to_delete == GetSelectedFilesToDelete(duplicate_tree)
        IN  IF duplicate_groups = <<>> \/ directory = ""
            THEN UNCHANGED <<generated_files, audit, pc, export>>
            ELSE IF files_to_delete = <<>>
            THEN /\ pc' = "info"
                 /\ UNCHANGED <<generated_files, audit, export>>
            ELSE IF write # "ok"
            THEN /\ audit' = IF write = "open_fails" THEN audit ELSE PartialAudit
                 /\ pc' = "error"
                 /\ UNCHANGED <<generated_files, export>>
            ELSE /\ audit' = AuditRecord(duplicate_groups, files_to_delete)
                 /\ generated_files' = Append(generated_files, TxtFile(directory))
                 /\ pc' = "confirm"
                 /\ export' = [NoExport EXCEPT !.plan = files_to_delete]
    /\ UNCHANGED <<cleanup_enabled, fs>>
    /\ UNCHANGED exportFrame
    /\ UNCHANGED clustererVars

\* the answer to QMessageBox.question taken as Yes whatever it is
ExportReplyAlwaysYes ==
    /\ pc = "confirm"
    /\ \E reply \in {"Yes", "No"} :
        /\ pc' = "deleting"
        /\ export' = [export EXCEPT !.reply = reply, !.idx = 1]
        /\ UNCHANGED cleanup_enabled
    /\ UNCHANGED <<generated_files, fs, audit>>
    /\ UNCHANGED exportFrame
    /\ UNCHANGED clustererVars

\* lines 610-617 and 640-645: the answer to the confirmation dialog
ExportReply ==
    /\ pc = "confirm"
    /\ \E reply \in {"Yes", "No"} :
        IF reply = "Yes"
        THEN /\ pc' = "deleting"
             /\ export' = [export EXCEPT !.reply = reply, !.idx = 1]
             /\ UNCHANGED cleanup_enabled
        ELSE /\ pc' = "idle"
             /\ export' = NoExport
             /\ cleanup_enabled' = TRUE
    /\ UNCHANGED <<generated_files, fs, audit>>
    /\ UNCHANGED exportFrame
    /\ UNCHANGED clustererVars

\* what os.remove can do to an existing file: remove it, raise, or return
\* with the file still there
RemoveOutcomes == {"removed", "raises", "remains"}

\* lines 621-634 with a missing file counted as a failure
DeleteEntryNotFoundFails(ex, disk, outcome) ==
    LET file_path == ex.plan[ex.idx]
        result == IF file_path \notin disk THEN "NotFound"
                  ELSE IF outcome = "removed" THEN "Deleted" ELSE "Failed"
    IN  [ex EXCEPT !.idx = @ + 1,
                   !.deleted_count = IF result = "Deleted" THEN @ + 1 ELSE @,
                   !.error_count = IF result # "Deleted" THEN @ + 1 ELSE @,
                   !.outcomes = Append(@, [path |-> file_path, result |-> result])]

\* lines 621-634 for files_to_delete[idx], given what os.remove does: the
\* locals of export_results after the iteration
DeleteEntry(ex, disk, outcome) ==
    LET file_path == ex.plan[ex.idx]
        result == IF file_path \notin disk THEN "NotFound"
                  ELSE IF outcome = "removed" THEN "Deleted" ELSE "Failed"
    IN  [ex EXCEPT !.idx = @ + 1,
                   !.deleted_count = IF result = "Deleted" THEN @ + 1 ELSE @,
                   !.error_count = IF result = "Failed" THEN @ + 1 ELSE @,
                   !.outcomes = Append(@, [path |-> file_path, result |-> result])]

\* the loop of line 620 left at the first failure
LoopDoneOrFailed(ex) ==
    \/ ex.idx > Len(ex.plan)
    \/ ex.outcomes # <<>> /\ ex.outcomes[Len(ex.outcomes)].result = "Failed"

\* the for loop of line 620 is over
LoopDone(ex) == ex.idx > Len(ex.plan)

\* one iteration of "for file_path in files_to_delete" (lines 620-634)
ExportDelete ==
    /\ pc = "deleting"
    /\ \E outcome \in RemoveOutcomes :
        LET file_path == export.plan[export.idx]
            after == DeleteEntry(export, fs, outcome)
        IN  /\ export' = after
            /\ fs' = IF file_path \in fs /\ outcome = "removed"
                     THEN fs \ {file_path} ELSE fs
            /\ pc' = IF LoopDone(after) THEN "report" ELSE "deleting"
    /\ UNCHANGED <<generated_files, cleanup_enabled, audit>>
    /\ UNCHANGED exportFrame
    /\ UNCHANGED clustererVars

\* the dialog export_results waits in is closed and the handler returns: after
\* the report of lines 636-639 come lines 643-645
ExportClose ==
    /\ pc \in {"info", "error", "report"}
    /\ pc' = "idle"
    /\ export' = NoExport
    /\ cleanup_enabled' = IF pc = "report" THEN TRUE ELSE cleanup_enabled
    /\ UNCHANGED <<generated_files, fs, audit>>
    /\ UNCHANGED exportFrame
    /\ UNCHANGED clustererVars

-----------------------------------------------------------------------------
(* cleanup_generated_files *)

RECURSIVE AuditAfterCleanup(_, _, _)
\* the loop of lines 669-684 on the generated files: outs[k] is what os.remove
\* does for entry k when the file exists
AuditAfterCleanup(content, outs, k) ==
    IF k > Len(outs) THEN content
    ELSE AuditAfterCleanup(IF content.state # "absent" /\ outs[k] = "removed"
                           THEN NoAudit ELSE content,
                           outs, k + 1)

\* cleanup_generated_files (lines 651-693)
CleanupGeneratedFiles ==
    /\ pc = "idle"
    /\ cleanup_enabled
    /\ \E reply \in {"Yes", "No"} :
       \E outs \in [1 .. Len(generated_files) -> {"removed", "raises"}] :
        IF generated_files = <<>> \/ reply = "No"
        THEN UNCHANGED <<generated_files, cleanup_enabled, audit>>
        ELSE /\ audit' = AuditAfterCleanup(audit, outs, 1)
             /\ generated_files' = <<>>
             /\ cleanup_enabled' = FALSE
    /\ UNCHANGED <<fs, pc, export>>
    /\ UNCHANGED exportFrame
    /\ UNCHANGED clustererVars

-----------------------------------------------------------------------------
(* Specification Spec: the controller *)

Init == CtlInit /\ ClustererOff

Next ==
    \/ AddImages
    \/ ClearList
    \/ DetectDuplicates
    \/ WorkerRun
    \/ OnDetectionComplete
    \/ UserToggle
    \/ UserClickGroup
    \/ SelectAllFiles
    \/ DeselectAllFiles
    \/ AutoSelectFiles
    \/ ExportBegin
    \/ ExportReply
    \/ ExportDelete
    \/ ExportClose
    \/ CleanupGeneratedFiles

Spec == Init /\ [][Next]_vars

-----------------------------------------------------------------------------
(* Specification SpecDetect: detections with their scheduling *)

\* the controller after add_images appended the files of one dialog
InitDetect ==
    /\ ClustererOff
    /\ image_paths \in DialogPicks \ {<<>>}
    /\ duplicate_groups = <<>>
    /\ duplicate_tree = <<>>
    /\ generated_files = <<>>
    /\ detect_enabled = TRUE
    /\ progress_visible = FALSE
    /\ export_enabled = FALSE
    /\ cleanup_enabled = FALSE
    /\ worker = NoWorker
    /\ fs = Paths
    /\ audit = NoAudit
    /\ pc = "idle"
    /\ export = NoExport
    /\ selected_by = Op("__init__", "")

NextDetect ==
    \/ ClearList
    \/ DetectDuplicates
    \/ WorkerRun
    \/ OnDetectionComplete
    \/ ExportBegin
    \/ ExportReply
    \/ ExportDelete
    \/ ExportClose
    \/ CleanupGeneratedFiles

\* a started QThread runs to the end of run(), and the queued result_signal is
\* delivered whenever the UI thread is back in an event loop, which it is
\* again and again
SpecDetect ==
    /\ InitDetect
    /\ [][NextDetect]_vars
    /\ WF_vars(WorkerRun)
    /\ WF_vars(ExportDelete)
    /\ SF_vars(OnDetectionComplete)

-----------------------------------------------------------------------------
(* Specification SpecSelect: detection and selection on every bounded image list *)

InitSelect ==
    /\ ClustererOff
    /\ image_paths \in SeqsUpTo(Paths, MaxShown) \ {<<>>}
    /\ duplicate_groups = <<>>
    /\ duplicate_tree = <<>>
    /\ generated_files = <<>>
    /\ detect_enabled = TRUE
    /\ progress_visible = FALSE
    /\ export_enabled = FALSE
    /\ cleanup_enabled = FALSE
    /\ worker = NoWorker
    /\ fs = Paths
    /\ audit = NoAudit
    /\ pc = "idle"
    /\ export = NoExport
    /\ selected_by = Op("__init__", "")

NextSelect ==
    \/ DetectDuplicates
    \/ WorkerRun
    \/ OnDetectionComplete
    \/ UserToggle
    \/ UserClickGroup
    \/ SelectAllFiles
    \/ DeselectAllFiles
    \/ AutoSelectFiles

SpecSelect == InitSelect /\ [][NextSelect]_vars

-----------------------------------------------------------------------------
(* Specification SpecExport: selection, export and cleanup on a displayed result *)

\* image lists in the order a file dialog returns them (sorted by name)
PathRank == [p \in Paths |-> IF p = "a" THEN 1 ELSE IF p = "b" THEN 2 ELSE 3]

SortedLists == {l \in SeqsUpTo(Paths, MaxShown) :
                    \A i \in 1 .. Len(l) - 1 : PathRank[l[i]] <= PathRank[l[i + 1]]}

\* the controller right after on_detection_complete displayed the groups of a
\* detection on the list
InitExport ==
    /\ ClustererOff
    /\ \E list \in SortedLists, threshold \in Thresholds :
        /\ image_paths = list
        /\ duplicate_groups = FindDuplicateGroups(list, HashOf, threshold)
    /\ duplicate_groups # <<>>
    /\ duplicate_tree = TreeOf(duplicate_groups)
    /\ generated_files = <<>>
    /\ detect_enabled = TRUE
    /\ progress_visible = FALSE
    /\ export_enabled = TRUE
    /\ cleanup_enabled = FALSE
    /\ worker = NoWorker
    /\ fs = Paths
    /\ audit = NoAudit
    /\ pc = "idle"
    /\ export = NoExport
    /\ selected_by = Op("on_detection_complete", "")

NextExport ==
    \/ UserToggle
    \/ UserClickGroup
    \/ SelectAllFiles
    \/ DeselectAllFiles
    \/ AutoSelectFiles
    \/ ExportBegin
    \/ ExportReply
    \/ ExportDelete
    \/ ExportClose
    \/ CleanupGeneratedFiles

SpecExport == InitExport /\ [][NextExport]_vars

-----------------------------------------------------------------------------
(* Specification SpecHash: find_duplicate_groups on every bounded input *)

InitHash ==
    /\ CtlInit
    /\ SiftOff
    /\ run_pc = "loop"
    /\ run_paths \in SeqsUpTo(Paths, MaxLen)
    /\ run_hashes \in [Paths -> Fingerprints \cup {None}]
    /\ run_threshold \in HashThresholds
    /\ run_i = 1
    /\ hash_groups = <<>>
    /\ run_result = <<>>

\* one iteration with the keys visited in no fixed order: the image joins any
\* group whose key is within threshold
FdgIterateAnyKey ==
    /\ run_pc = "loop"
    /\ run_i <= Len(run_paths)
    /\ LET path == run_paths[run_i]
           img_hash == run_hashes[path]
           hits == IF img_hash = None THEN {}
                   ELSE {k \in 1 .. Len(hash_groups) :
                            Matches(HammingDistance(img_hash, hash_groups[k].key),
                                    run_threshold)}
       IN  IF img_hash = None THEN hash_groups' = hash_groups
           ELSE IF hits = {} THEN hash_groups' = DictAppend(hash_groups, img_hash, path)
           ELSE \E k \in hits :
                    hash_groups' = DictAppend(hash_groups, hash_groups[k].key, path)
    /\ run_i' = run_i + 1
    /\ UNCHANGED <<run_pc, run_paths, run_hashes, run_threshold, run_result>>
    /\ UNCHANGED <<siftVars, ctlVars>>

\* one iteration of the for loop of find_duplicate_groups
FdgIterate ==
    /\ run_pc = "loop"
    /\ run_i <= Len(run_paths)
    /\ hash_groups' = LoopBody(hash_groups, run_paths[run_i],
                               run_hashes[run_paths[run_i]], run_threshold)
    /\ run_i' = run_i + 1
    /\ UNCHANGED <<run_pc, run_paths, run_hashes, run_threshold, run_result>>
    /\ UNCHANGED <<siftVars, ctlVars>>

\* lines 62-63: filter and return
FdgReturn ==
    /\ run_pc = "loop"
    /\ run_i > Len(run_paths)
    /\ run_result' = SelectGroups(hash_groups)
    /\ run_pc' = "done"
    /\ UNCHANGED <<run_paths, run_hashes, run_threshold, run_i, hash_groups>>
    /\ UNCHANGED <<siftVars, ctlVars>>

NextHash == FdgIterate \/ FdgReturn

SpecHash == InitHash /\ [][NextHash]_vars

-----------------------------------------------------------------------------
(* Specification SpecOrder: find_duplicate_groups on longer lists, over fewer
   fingerprints and thresholds *)

OrderFingerprints == {"0", "1", "f"}

OrderThresholds == {0, 1}

InitOrder ==
    /\ CtlInit
    /\ SiftOff
    /\ run_pc = "loop"
    /\ run_paths \in SeqsUpTo(Paths, MaxRun)
    /\ run_hashes \in [Paths -> OrderFingerprints \cup {None}]
    /\ run_threshold \in OrderThresholds
    /\ run_i = 1
    /\ hash_groups = <<>>
    /\ run_result = <<>>

NextOrder == FdgIterate \/ FdgReturn

SpecOrder == InitOrder /\ [][NextOrder]_vars

-----------------------------------------------------------------------------
(* Specification SpecSift: find_duplicate_groups_by_sift on every bounded input *)

InitSift ==
    /\ CtlInit
    /\ HashOff
    /\ sift_pc = "extract"
    /\ sift_paths \in SeqsUpTo(Paths, MaxLen)
    /\ sift_des \in [Paths -> DesOutcomes]
    /\ sift_knn \in [PathPairs -> KnnOutcomes]
    /\ sift_min_matches \in Thresholds
    /\ features = <<>>
    /\ sift_result = <<>>

\* lines 73-87: the features of the images
SiftExtract ==
    /\ sift_pc = "extract"
    /\ features' = FeatureKeys(<<>>, sift_paths, sift_des)
    /\ sift_pc' = "group"
    /\ UNCHANGED <<sift_paths, sift_des, sift_knn, sift_min_matches, sift_result>>
    /\ UNCHANGED <<hashVars, ctlVars>>

\* lines 89-124: grouping and return
SiftGroup ==
    /\ sift_pc = "group"
    /\ sift_result' = GroupFeatures(features, sift_knn, sift_min_matches)
    /\ sift_pc' = "done"
    /\ UNCHANGED <<sift_paths, sift_des, sift_knn, sift_min_matches, features>>
    /\ UNCHANGED <<hashVars, ctlVars>>

NextSift == SiftExtract \/ SiftGroup

SpecSift == InitSift /\ [][NextSift]_vars

-----------------------------------------------------------------------------
(* Specification SpecCluster: one run of either clusterer *)

InitCluster == InitHash \/ InitSift

NextCluster == NextHash \/ NextSift

SpecCluster == InitCluster /\ [][NextCluster]_vars

-----------------------------------------------------------------------------
(* Properties of the selection handlers *)

GroupIndexes == 1 .. Len(duplicate_tree)

\* the positions <<g, j>> of the file items shown Unchecked
UncheckedPositions(tree) ==
    {gj \in UNION {{<<g, j>> : j \in 1 .. Len(tree[g])} : g \in 1 .. Len(tree)} :
        tree[gj[1]][gj[2]].check = Unchecked}

\* C1: every displayed duplicate group has at least one member Checked, right
\* after on_detection_complete and after every selection handler
C1_EveryGroupKeepsOne ==
    \A g \in GroupIndexes :
        \E j \in 1 .. Len(duplicate_tree[g]) : duplicate_tree[g][j].check = Checked

C1_Witness ==
    /\ selected_by = Op("on_detection_complete", "")
    /\ Len(duplicate_tree) = 2
    /\ \A g \in GroupIndexes : Len(duplicate_tree[g]) = 2

\* unchecking file item j of group g would leave no member of the group Checked
OnlyChecked(g, j) ==
    /\ duplicate_tree[g][j].check = Checked
    /\ \A i \in 1 .. Len(duplicate_tree[g]) :
            i # j => duplicate_tree[g][i].check # Checked

\* C2: unchecking the only Checked member of a group is rejected with the
\* warning and leaves the check state of every member of every group as it was
C2_RejectedUncheckKeepsSelection ==
    /\ [](\A g \in GroupIndexes : \A j \in 1 .. Len(duplicate_tree[g]) :
            OnlyChecked(g, j) =>
                /\ SetCheckStateWarns(duplicate_tree[g], j, Unchecked)
                /\ SetCheckState(duplicate_tree[g], j, Unchecked) = duplicate_tree[g])
    /\ [][selected_by' = Op("on_selection_changed", "rejected")
            => duplicate_tree' = duplicate_tree]_vars

C2_Witness ==
    /\ selected_by = Op("on_selection_changed", "rejected")
    /\ \E g \in GroupIndexes : OnlyChecked(g, 2)

-----------------------------------------------------------------------------
(* Properties of export_results *)

\* C3: an image file is removed only by the delete loop of export_results,
\* after the answer Yes, and it is the plan entry the loop is at; the plan holds
\* only members shown Unchecked when it was built
C3_RemovalOnlyOfConfirmedPlan ==
    /\ [][fs' # fs =>
            /\ pc = "deleting"
            /\ export.reply = "Yes"
            /\ export.idx \in 1 .. Len(export.plan)
            /\ fs' = fs \ {export.plan[export.idx]}]_vars
    /\ [][pc = "idle" /\ pc' = "confirm" =>
            \A k \in 1 .. Len(export'.plan) :
                \E gj \in UncheckedPositions(duplicate_tree) :
                    duplicate_tree[gj[1]][gj[2]].path = export'.plan[k]]_vars
    /\ [](pc = "deleting" => export.reply = "Yes")

C3_Witness ==
    /\ pc = "report"
    /\ export.deleted_count = 1
    /\ fs = Paths \ {"b"}

\* C4: while export_results asks for the confirmation, deletes and reports,
\* duplicates.txt holds the complete record of the groups and of the plan; a
\* file is removed only with that record on disk
C4_AuditBeforeRemoval ==
    /\ [](pc \in {"confirm", "deleting", "report"} =>
            audit = AuditRecord(duplicate_groups, export.plan))
    /\ [][fs' # fs => /\ audit.state = "complete"
                      /\ audit.selected = export.plan
                      /\ audit' = audit]_vars
    /\ [][pc' = "error" => fs' = fs /\ generated_files' = generated_files]_vars

C4_Witness ==
    /\ pc = "report"
    /\ export.deleted_count = 2
    /\ audit.state = "complete"

ResultsAt(ex, result) == {k \in 1 .. Len(ex.outcomes) : ex.outcomes[k].result = result}

\* C5: the delete loop attempts every plan entry in plan order whatever the
\* earlier outcomes; a plan of three existing files of which one fails ends
\* with 2 deleted and 1 failed
C5_EveryEntryAttempted ==
    /\ pc \in {"deleting", "report"} =>
        /\ Len(export.outcomes) = export.idx - 1
        /\ \A k \in 1 .. Len(export.outcomes) : export.outcomes[k].path = export.plan[k]
        /\ \A k \in ResultsAt(export, "Deleted") : export.plan[k] \notin fs
    /\ pc = "report" =>
        /\ Len(export.outcomes) = Len(export.plan)
        /\ (/\ Len(export.plan) = 3
            /\ Cardinality(ResultsAt(export, "Failed")) = 1
            /\ ResultsAt(export, "NotFound") = {})
           => export.deleted_count = 2 /\ export.error_count = 1

C5_Witness ==
    /\ pc = "report"
    /\ Len(export.plan) = 3
    /\ export.outcomes[1].result = "Failed"
    /\ export.outcomes[2].result = "Deleted"
    /\ export.outcomes[3].result = "Deleted"
    /\ export.deleted_count = 2
    /\ export.error_count = 1

\* C6: every attempted plan entry has one outcome among Deleted, NotFound and
\* Failed; an entry whose file is absent when reached is NotFound and changes
\* neither count; at the end the three kinds add up to the plan
C6_OneOutcomePerEntry ==
    /\ [](pc \in {"deleting", "report"} =>
            /\ \A k \in 1 .. Len(export.outcomes) :
                    export.outcomes[k].result \in {"Deleted", "NotFound", "Failed"}
            /\ export.deleted_count = Cardinality(ResultsAt(export, "Deleted"))
            /\ export.error_count = Cardinality(ResultsAt(export, "Failed")))
    /\ [](pc = "report" =>
            export.deleted_count + export.error_count
              + Cardinality(ResultsAt(export, "NotFound")) = Len(export.plan))
    /\ [][pc = "deleting" =>
            LET absent == export.plan[export.idx] \notin fs
                last == export'.outcomes[Len(export'.outcomes)]
            IN  /\ Len(export'.outcomes) = Len(export.outcomes) + 1
                /\ (last.result = "NotFound") <=> absent
                /\ absent => /\ export'.deleted_count = export.deleted_count
                             /\ export'.error_count = export.error_count]_vars

C6_Witness ==
    /\ pc = "report"
    /\ Len(export.plan) = 2
    /\ export.outcomes[1].result = "Deleted"
    /\ export.outcomes[2].result = "NotFound"
    /\ export.deleted_count = 1
    /\ export.error_count = 0

\* <<g, j>> comes before <<h, i>> in the order group index, then member position
Before(p, q) == p[1] < q[1] \/ (p[1] = q[1] /\ p[2] < q[2])

\* plan lists the paths of the Unchecked members of tree, one entry each, by
\* group index and then by member position
IsPlanOf(plan, tree) ==
    LET U == UncheckedPositions(tree)
        rank(p) == Cardinality({q \in U : Before(q, p)}) + 1
    IN  /\ Len(plan) = Cardinality(U)
        /\ \A p \in U : plan[rank(p)] = tree[p[1]][p[2]].path

\* C7: the plan of get_selected_files_to_delete is exactly the Unchecked
\* members of all groups in group and member order; with one group and one
\* Unchecked member it has one entry
C7_PlanIsUncheckedMembers ==
    /\ IsPlanOf(GetSelectedFilesToDelete(duplicate_tree), duplicate_tree)
    /\ pc = "confirm" => IsPlanOf(export.plan, duplicate_tree)
    /\ (Len(duplicate_tree) = 1 /\ Cardinality(UncheckedPositions(duplicate_tree)) = 1)
        => Len(GetSelectedFilesToDelete(duplicate_tree)) = 1

C7_Witness ==
    /\ pc = "confirm"
    /\ Len(duplicate_tree) = 2
    /\ duplicate_tree[1][1].check = Unchecked
    /\ duplicate_tree[2][2].check = Unchecked
    /\ export.plan = <<"a", "c">>

\* C8: with no member Unchecked (as after select_all_files) export_results shows
\* the "no file selected" dialog and returns: no audit record, no entry of
\* generated_files, no confirmation, no removal
C8_EmptyPlanStops ==
    /\ [](selected_by = Op("select_all_files", "") =>
            /\ UncheckedPositions(duplicate_tree) = {}
            /\ GetSelectedFilesToDelete(duplicate_tree) = <<>>)
    /\ [][(pc = "idle" /\ pc' # "idle" /\ UncheckedPositions(duplicate_tree) = {}) =>
            /\ pc' = "info"
            /\ audit' = audit
            /\ generated_files' = generated_files
            /\ fs' = fs]_vars
    /\ [][pc = "info" =>
            /\ pc' = "idle"
            /\ audit' = audit
            /\ generated_files' = generated_files
            /\ cleanup_enabled' = cleanup_enabled
            /\ fs' = fs]_vars
    /\ [](pc \in {"confirm", "deleting", "report"} => export.plan # <<>>)

C8_Witness ==
    /\ pc = "info"
    /\ selected_by = Op("select_all_files", "")
    /\ audit = NoAudit
    /\ generated_files = <<>>

-----------------------------------------------------------------------------
(* Properties of find_duplicate_groups *)

\* the four bits of a hex digit, most significant first
BitsOfHex(h) ==
    LET n == CHOOSE k \in 0 .. 15 : HexDigits[k + 1] = h
    IN  <<(n \div 8) % 2, (n \div 4) % 2, (n \div 2) % 2, n % 2>>

\* number of bit positions in which two fingerprints differ
DifferingBits(h1, h2) ==
    Cardinality({i \in 1 .. 4 : BitsOfHex(h1)[i] # BitsOfHex(h2)[i]})

Occurrences(group, path) == Cardinality({i \in 1 .. Len(group) : group[i] = path})

\* C9 as stated: the returned groups are pairwise disjoint, hold no image
\* twice and have at least 2 members
C9_GroupsDisjoint ==
    run_pc = "done" =>
        /\ \A g \in 1 .. Len(run_result) : Len(run_result[g]) >= 2
        /\ \A g \in 1 .. Len(run_result) : \A p \in Paths :
                Occurrences(run_result[g], p) <= 1
        /\ \A g, h \in 1 .. Len(run_result) : \A p \in Paths :
                (g # h /\ Occurrences(run_result[g], p) > 0)
                    => Occurrences(run_result[h], p) = 0

\* the run is on the fingerprints A = 0000, B = 0001, C = 1111 in that order
RunOnABC ==
    /\ run_paths = <<"a", "b", "c">>
    /\ run_hashes = [p \in Paths |-> IF p = "a" THEN "0" ELSE IF p = "b" THEN "1" ELSE "f"]

\* the run is on two images with the fingerprints h1 and h2
RunOnPair(h1, h2) ==
    /\ run_paths = <<"a", "b">>
    /\ run_hashes["a"] = h1
    /\ run_hashes["b"] = h2

\* C10: an image joins a group only when its fingerprint is within threshold
\* of the group's representative (its first image), and starts a new group
\* exactly when it is farther than threshold from every representative
C10_JoinWithinThreshold ==
    /\ [][(run_pc = "loop" /\ run_i' = run_i + 1
                /\ run_hashes[run_paths[run_i]] # None) =>
            LET path == run_paths[run_i]
                h == run_hashes[path]
                near == {k \in 1 .. Len(hash_groups) :
                            DifferingBits(h, hash_groups[k].key) <= run_threshold}
            IN  IF near = {}
                THEN hash_groups' = Append(hash_groups, [key |-> h, members |-> <<path>>])
                ELSE /\ Len(hash_groups') = Len(hash_groups)
                     /\ \E k \in near :
                            hash_groups' = [hash_groups EXCEPT
                                                ![k].members = Append(@, path)]]_vars
    /\ [](\A k \in 1 .. Len(hash_groups) :
            /\ hash_groups[k].key = run_hashes[hash_groups[k].members[1]]
            /\ \A m \in 1 .. Len(hash_groups[k].members) :
                    DifferingBits(run_hashes[hash_groups[k].members[m]],
                                  hash_groups[k].key) <= run_threshold)
    /\ []((run_pc = "done" /\ run_threshold = 0) =>
            \A g \in 1 .. Len(run_result) : \A m \in 1 .. Len(run_result[g]) :
                run_hashes[run_result[g][m]] = run_hashes[run_result[g][1]])
    /\ []((run_pc = "done" /\ run_threshold = 0 /\ RunOnPair("a", "a"))
            => run_result = << <<"a", "b">> >>)
    /\ []((run_pc = "done" /\ run_threshold = 0 /\ RunOnPair("a", "b"))
            => run_result = <<>>)
    /\ []((run_pc = "done" /\ run_threshold = 1 /\ RunOnABC)
            => run_result = << <<"a", "b">> >>)
    /\ []((run_pc = "done" /\ run_threshold = 4 /\ RunOnABC)
            => run_result = << <<"a", "b", "c">> >>)

C10_Witness ==
    /\ run_pc = "done"
    /\ run_threshold = 1
    /\ RunOnABC
    /\ run_result = << <<"a", "b">> >>

-----------------------------------------------------------------------------
(* Properties of find_duplicate_groups_by_sift and of decode failures *)

RECURSIVE Without(_, _)
\* the list without the images of the set failing, order kept
Without(paths, failing) ==
    IF paths = <<>> THEN <<>>
    ELSE IF Head(paths) \in failing
         THEN Without(Tail(paths), failing)
         ELSE <<Head(paths)>> \o Without(Tail(paths), failing)

\* the images compute_hash returns None for
HashFailing == {p \in Paths : run_hashes[p] = None}

\* the images whose reading raises in find_duplicate_groups_by_sift
SiftFailing == {p \in Paths : sift_des[p] = "raises"}

MembersOf(groups) ==
    UNION {{groups[g][m] : m \in 1 .. Len(groups[g])} : g \in 1 .. Len(groups)}

\* C11: an image that cannot be decoded is in no returned group, is neither a
\* representative nor a seed and does not stop the run; both clusterers return
\* what they return on the list without the failing images
C11_DecodeFailuresExcluded ==
    /\ \A k \in 1 .. Len(hash_groups) :
            /\ hash_groups[k].key # None
            /\ \A m \in 1 .. Len(hash_groups[k].members) :
                    hash_groups[k].members[m] \notin HashFailing
    /\ run_pc = "done" =>
        /\ MembersOf(run_result) \cap HashFailing = {}
        /\ run_result = FindDuplicateGroups(Without(run_paths, HashFailing),
                                            run_hashes, run_threshold)
    /\ sift_pc \in {"group", "done"} =>
            \A k \in 1 .. Len(features) : features[k] \notin SiftFailing
    /\ sift_pc = "done" =>
        /\ MembersOf(sift_result) \cap SiftFailing = {}
        /\ sift_result = FindDuplicateGroupsBySift(Without(sift_paths, SiftFailing),
                                                   sift_des, sift_knn, sift_min_matches)

C11_Witness ==
    /\ sift_pc = "done"
    /\ sift_paths = <<"a", "b", "c">>
    /\ sift_des = [p \in Paths |-> IF p = "b" THEN "raises" ELSE "des"]
    /\ sift_min_matches = 1
    /\ sift_result = << <<"a", "c">> >>

\* C12: the groups find_duplicate_groups_by_sift returns are pairwise
\* disjoint, hold no image twice and have at least 2 members, also when a path
\* occurs more than once in the input
C12_SiftGroupsDisjoint ==
    sift_pc = "done" =>
        /\ \A g \in 1 .. Len(sift_result) : Len(sift_result[g]) >= 2
        /\ \A g \in 1 .. Len(sift_result) : \A p \in Paths :
                Occurrences(sift_result[g], p) <= 1
        /\ \A g, h \in 1 .. Len(sift_result) : \A p \in Paths :
                (g # h /\ Occurrences(sift_result[g], p) > 0)
                    => Occurrences(sift_result[h], p) = 0

C12_Witness ==
    /\ sift_pc = "done"
    /\ sift_paths = <<"a", "b", "a">>
    /\ sift_result = << <<"a", "b">> >>

\* C13: an image without keypoint descriptor (des is None) is in no group of
\* find_duplicate_groups_by_sift, whatever min_matches (0 included) and
\* wherever it stands in the input
C13_NoDescriptorNoGroup ==
    /\ sift_pc \in {"group", "done"} =>
            \A k \in 1 .. Len(features) : sift_des[features[k]] # "None"
    /\ sift_pc = "done" =>
            \A p \in Paths : sift_des[p] = "None" => p \notin MembersOf(sift_result)

C13_Witness ==
    /\ sift_pc = "done"
    /\ sift_min_matches = 0
    /\ sift_paths = <<"b", "a", "c">>
    /\ sift_des = [p \in Paths |-> IF p = "a" THEN "None" ELSE "des"]
    /\ sift_result = << <<"b", "c">> >>

\* C16 as stated: a call of find_duplicate_groups_by_sift with min_matches <= 0
\* fails before any clustering work and yields no groups
C16_NonPositiveMinMatchesFails ==
    (sift_pc \in {"group", "done"} /\ sift_min_matches <= 0) =>
        /\ features = <<>>
        /\ sift_result = <<>>

-----------------------------------------------------------------------------
(* Properties of auto_select_files *)

\* size and modification time as auto_select_files reads them from the disk
StatOf(path) == IF path \in fs THEN [size |-> SizeOf[path], mtime |-> MTimeOf[path]]
                ELSE [size |-> 0, mtime |-> 0]

\* no member of the group is larger than member j, or as large and newer
IsBest(items, j) ==
    \A i \in 1 .. Len(items) :
        \/ StatOf(items[i].path).size < StatOf(items[j].path).size
        \/ /\ StatOf(items[i].path).size = StatOf(items[j].path).size
           /\ StatOf(items[i].path).mtime <= StatOf(items[j].path).mtime

\* exactly one member is Checked, it is a best one, all others are Unchecked
KeepsOnlyBest(items) ==
    \E j \in 1 .. Len(items) :
        /\ items[j].check = Checked
        /\ IsBest(items, j)
        /\ \A i \in 1 .. Len(items) : i # j => items[i].check = Unchecked

\* C14: auto_select_files leaves in every group exactly one member Checked,
\* the largest file, the newest among the largest; an unreadable file ranks as
\* size 0, mtime 0; of a 100 KB and a 50 KB file the 100 KB file is kept
C14_AutoSelectKeepsBest ==
    /\ [](\A g \in GroupIndexes :
            LET after == AutoSelectGroup(duplicate_tree[g], fs)
            IN  /\ KeepsOnlyBest(after)
                /\ \A j \in 1 .. Len(after) :
                        (/\ after[j].check = Checked
                         /\ {"a", "b"} \subseteq fs
                         /\ \E i \in 1 .. Len(after) : after[i].path = "a")
                            => after[j].path # "b")
    /\ [][(selected_by' = Op("auto_select_files", "")
                /\ (selected_by' # selected_by \/ duplicate_tree' # duplicate_tree))
            => \A g \in 1 .. Len(duplicate_tree') : KeepsOnlyBest(duplicate_tree'[g])]_vars

C14_Witness ==
    /\ selected_by = Op("auto_select_files", "")
    /\ fs = Paths
    /\ Len(duplicate_tree) = 1
    /\ duplicate_tree[1] = <<[path |-> "a", check |-> Unchecked],
                             [path |-> "b", check |-> Unchecked],
                             [path |-> "c", check |-> Checked]>>

-----------------------------------------------------------------------------
(* Determinism of find_duplicate_groups *)

RECURSIVE Ascending(_)
\* the numbers of S in increasing order
Ascending(S) ==
    IF S = {} THEN <<>>
    ELSE LET least == CHOOSE x \in S : \A y \in S : x <= y
         IN  <<least>> \o Ascending(S \ {least})

\* the number of differing bits of every two sample fingerprints
BitDistance == [pair \in Fingerprints \X Fingerprints |-> DifferingBits(pair[1], pair[2])]

\* the groups the ordered inputs determine: an image is a representative when
\* it has a fingerprint farther than threshold from every earlier
\* representative, every other image with a fingerprint belongs to the earliest
\* representative within threshold, and representatives left alone are dropped
GroupsDeterminedBy(paths, hashes, threshold) ==
    LET n == Len(paths)
        h(i) == hashes[paths[i]]
        Reps[i \in 0 .. n] ==
            IF i = 0 THEN {}
            ELSE IF /\ h(i) # None
                    /\ \A k \in Reps[i - 1] : BitDistance[<<h(i), h(k)>>] > threshold
                 THEN Reps[i - 1] \cup {i}
                 ELSE Reps[i - 1]
        reps == Reps[n]
        repOf(i) == CHOOSE k \in reps :
                        /\ BitDistance[<<h(i), h(k)>>] <= threshold
                        /\ \A l \in reps :
                                BitDistance[<<h(i), h(l)>>] <= threshold => k <= l
        members(k) == {i \in 1 .. n : h(i) # None /\ repOf(i) = k}
        kept == Ascending({k \in reps : Cardinality(members(k)) >= 2})
    IN  [g \in 1 .. Len(kept) |->
            LET ms == Ascending(members(kept[g]))
            IN  [m \in 1 .. Len(ms) |-> paths[ms[m]]]]

\* C15: the list of groups find_duplicate_groups returns, group order and
\* member order included, is determined by the ordered input list, the
\* fingerprints and the threshold: every run on them returns the same list
C15_ResultDeterminedByInputs ==
    run_pc = "done" =>
        run_result = GroupsDeterminedBy(run_paths, run_hashes, run_threshold)

C15_Witness ==
    /\ run_pc = "done"
    /\ run_paths = <<"a", "b", "c">>
    /\ run_hashes = [p \in Paths |-> IF p = "a" THEN "f" ELSE IF p = "b" THEN "a" ELSE "b"]
    /\ run_threshold = 1
    /\ run_result = << <<"a", "c">> >>

-----------------------------------------------------------------------------
(* Properties of a clustering run in DeduplicationThread *)

\* C17 as stated: a running clustering task can be cancelled between two
\* images, that is, with images left to process the run can end at once and
\* deliver the groups finalized so far, each of at least 2 members
C17_CancellableBetweenImages ==
    (run_pc = "loop" /\ run_i <= Len(run_paths)) =>
        ENABLED (/\ NextHash
                 /\ run_pc' = "done"
                 /\ \A g \in 1 .. Len(run_result') : Len(run_result'[g]) >= 2)

\* C18 as stated: a run over n images gives the caller one progress update per
\* image, n updates, non-decreasing, the last one meaning complete
C18_ProgressPerImage ==
    [][(worker.state = "running" /\ worker'.state = "emitted"
            /\ worker'.progress # <<>>) =>
        /\ Len(worker'.progress) = Len(worker.paths)
        /\ \A k \in 1 .. Len(worker'.progress) - 1 :
                worker'.progress[k] <= worker'.progress[k + 1]
        /\ worker'.progress[Len(worker'.progress)] = Complete]_vars

\* C19 as stated: while a run is in flight, the paths the worker iterates stay
\* the image list detect_duplicates started the run with, whatever add_images
\* and clear_list do on the UI thread
C19_RunOwnsItsInput ==
    [][(worker.state = "running" /\ worker'.state = "running")
            => worker'.paths = worker.paths]_vars

-----------------------------------------------------------------------------
(* Content of the audit record *)

KindAt(lines, kind) == {k \in 1 .. Len(lines) : lines[k].kind = kind}

\* lines is the record of groups and plan: the title, per group in index order
\* an empty line, the header with its number and all its member paths
\* indented, then an empty line, the header of the selection with the count
\* and the plan entries in order, and nothing else
IsAuditOf(lines, groups, plan) ==
    LET headers == Ascending(KindAt(lines, "group"))
        summary == KindAt(lines, "selected")
        end(g) == IF g < Len(headers) THEN headers[g + 1] - 1
                  ELSE (CHOOSE k \in summary : TRUE) - 1
    IN  /\ KindAt(lines, "title") = {1}
        /\ Len(headers) = Len(groups)
        /\ Cardinality(summary) = 1
        /\ \A g \in 1 .. Len(headers) :
                /\ lines[headers[g]].n = g
                /\ lines[headers[g] - 1].kind = "empty"
                /\ end(g) = headers[g] + Len(groups[g]) + 1
                /\ \A m \in 1 .. Len(groups[g]) :
                        /\ lines[headers[g] + m].kind = "path"
                        /\ lines[headers[g] + m].path = groups[g][m]
        /\ \A at \in summary :
                /\ lines[at - 1].kind = "empty"
                /\ lines[at].n = Len(plan)
                /\ Len(lines) = at + Len(plan)
                /\ \A m \in 1 .. Len(plan) :
                        /\ lines[at + m].kind = "path"
                        /\ lines[at + m].path = plan[m]

\* C20: the audit record export_results writes holds a header per group in
\* group order followed by the group's member paths, then the plan entries in
\* plan order with their count; an export of the same groups and the same
\* selection as the record on disk writes the same content
C20_AuditContentReproducible ==
    /\ [](pc \in {"confirm", "deleting", "report"} =>
            IsAuditOf(audit.lines, duplicate_groups, export.plan))
    /\ [][(pc = "idle" /\ pc' = "confirm" /\ audit.state = "complete"
                /\ IsAuditOf(audit.lines, duplicate_groups', export'.plan))
            => audit'.lines = audit.lines]_vars

C20_Witness ==
    /\ pc = "confirm"
    /\ Len(duplicate_groups) = 2
    /\ export.plan = <<"b", "c">>
    /\ Len(audit.lines) = 13

-----------------------------------------------------------------------------
(* Kept members and the files one export_results execution removes *)

\* the paths the running export_results execution has removed so far
DeletedNow == {export.outcomes[k].path :
                    k \in {n \in 1 .. Len(export.outcomes) :
                                export.outcomes[n].result = "Deleted"}}

\* the paths shown Checked in group g
KeptIn(g) == {duplicate_tree[g][j].path :
                    j \in {n \in 1 .. Len(duplicate_tree[g]) :
                                CheckStateOf(duplicate_tree[g][n]) = Checked}}

\* the member paths of group g
ShownIn(g) == {duplicate_tree[g][j].path : j \in 1 .. Len(duplicate_tree[g])}

\* C21 as stated: a confirmed export_results execution removes no path that
\* a group shows Checked, so every group keeps a member file this execution
\* did not delete, for every image list, repeated paths included
C21_KeptNeverRemoved ==
    pc \in {"deleting", "report"} =>
        \A g \in GroupIndexes :
            /\ KeptIn(g) \cap DeletedNow = {}
            /\ ShownIn(g) \ DeletedNow # {}

-----------------------------------------------------------------------------
(* Choice of the representative in find_duplicate_groups *)

\* the index of the representative nearest to fingerprint h among those within
\* threshold, the earliest of equally near ones; 0 when none is within threshold
NearestRep(hg, h, threshold) ==
    LET d(k) == BitDistance[<<h, hg[k].key>>]
        near == {k \in 1 .. Len(hg) : d(k) <= threshold}
    IN  IF near = {} THEN 0
        ELSE CHOOSE k \in near :
                \A j \in near : d(k) < d(j) \/ (d(k) = d(j) /\ k <= j)

\* C22 as stated: an image with a representative within threshold is appended
\* to the group of the representative at minimum Hamming distance, the
\* earliest among equally near ones
C22_JoinsNearestRepresentative ==
    [][(run_pc = "loop" /\ run_i' = run_i + 1
            /\ run_hashes[run_paths[run_i]] # None
            /\ NearestRep(hash_groups, run_hashes[run_paths[run_i]], run_threshold) # 0) =>
        LET path == run_paths[run_i]
            k == NearestRep(hash_groups, run_hashes[path], run_threshold)
        IN  hash_groups' = [hash_groups EXCEPT ![k].members = Append(@, path)]]_vars

-----------------------------------------------------------------------------
(* Seeds and members of the groups of find_duplicate_groups_by_sift *)

\* the position of the first occurrence of path in the input list
FirstAt(paths, path) == Min({i \in 1 .. Len(paths) : paths[i] = path})

\* the run is on A, B, C in this order, every image with descriptors, A~B and
\* B~C with 2 good matches and A, C with none
RunOnChain ==
    /\ sift_paths = <<"a", "b", "c">>
    /\ sift_des = [p \in Paths |-> "des"]
    /\ sift_knn = [pq \in PathPairs |->
                        [raises |-> FALSE, good |-> IF pq = {"a", "c"} THEN 0 ELSE 2]]
    /\ sift_min_matches = 1

\* C23: every member of a group of find_duplicate_groups_by_sift after the
\* first matches the first (the seed) directly with at least min_matches good
\* matches and comes later in the input than the seed; on A, B, C with A~B,
\* B~C and not A~C the result is the single group [A, B]
C23_MembersMatchSeed ==
    sift_pc = "done" =>
        /\ \A g \in 1 .. Len(sift_result) : \A m \in 2 .. Len(sift_result[g]) :
                LET seed == sift_result[g][1]
                    member == sift_result[g][m]
                IN  /\ member # seed
                    /\ ~sift_knn[{seed, member}].raises
                    /\ sift_knn[{seed, member}].good >= sift_min_matches
                    /\ FirstAt(sift_paths, seed) < FirstAt(sift_paths, member)
        /\ RunOnChain => sift_result = << <<"a", "b">> >>

C23_Witness ==
    /\ sift_pc = "done"
    /\ RunOnChain
    /\ sift_result = << <<"a", "b">> >>

-----------------------------------------------------------------------------
(* Properties of deselect_all_files *)

\* C24 as stated: after deselect_all_files every group has its first member
\* Checked and every other member Unchecked, whatever the selection was
C24_DeselectKeepsFirstOnly ==
    selected_by = Op("deselect_all_files", "") =>
        \A g \in GroupIndexes : \A j \in 1 .. Len(duplicate_tree[g]) :
            CheckStateOf(duplicate_tree[g][j]) = IF j = 1 THEN Checked ELSE Unchecked

-----------------------------------------------------------------------------
(* Files of a group over several export_results executions *)

\* C25 as stated: whatever selection changes and confirmed export_results
\* executions follow the display of a clustering result, every group keeps a
\* member file that was never deleted
C25_GroupNeverEmptied ==
    \A g \in GroupIndexes : ShownIn(g) \cap fs # {}

-----------------------------------------------------------------------------
(* clear_list and the result of a detection *)

\* the paths of the current image list
Listed == {image_paths[i] : i \in 1 .. Len(image_paths)}

\* C26 as stated: every path shown in a duplicate group is a path of the
\* current image list, and with the list cleared and nothing added since, the
\* displayed groups are empty and the export button is disabled, also when a
\* detection started before clear_list delivers its result afterwards
C26_ClearedStaysCleared ==
    /\ \A g \in GroupIndexes : ShownIn(g) \subseteq Listed
    /\ image_paths = <<>> =>
            /\ duplicate_groups = <<>>
            /\ duplicate_tree = <<>>
            /\ ~export_enabled

-----------------------------------------------------------------------------
(* Completion of a detection *)

\* on_detection_complete has handled the result of the run
DetectionOver ==
    /\ worker.state = "none"
    /\ detect_enabled
    /\ ~progress_visible

\* C27: every detection detect_duplicates starts delivers a result to
\* on_detection_complete, the empty list when the clustering raised, after
\* which the detect button is enabled again and the progress bar hidden
C27_DetectionCompletes ==
    /\ (worker.state = "running") ~> DetectionOver
    /\ (worker.state = "emitted" /\ worker.progress = <<>>) ~> DetectionOver
    /\ [](worker.state = "running" => (~detect_enabled /\ progress_visible))
    /\ []((worker.state = "emitted" /\ worker.progress = <<>>) => worker.result = <<>>)
    /\ [][worker.state = "emitted" /\ worker'.state = "none" =>
            /\ duplicate_groups' = worker.result
            /\ detect_enabled' /\ ~progress_visible']_vars

C27_Witness ==
    /\ selected_by = Op("on_detection_complete", "")
    /\ DetectionOver
    /\ duplicate_groups = <<>>
    /\ image_paths = <<"a", "a">>

-----------------------------------------------------------------------------
(* One detection at a time *)

\* a worker thread is running or its result is queued
InFlight == worker.state \in {"running", "emitted"}

\* C28: from detect_duplicates starting a worker until on_detection_complete
\* handles its result the detect button is disabled, a worker is started only
\* with none in flight, and the result on_detection_complete takes is the one
\* of that worker
C28_OneWorkerAtATime ==
    /\ [](InFlight <=> ~detect_enabled)
    /\ [][(worker'.state = "running" /\ worker.state # "running")
            => (worker.state = "none" /\ detect_enabled /\ worker'.paths = image_paths)]_vars
    /\ [][(InFlight /\ worker'.state = "running")
            => (worker.state = "running"
                /\ worker'.method = worker.method
                /\ worker'.threshold = worker.threshold)]_vars
    /\ [][(InFlight /\ ~InFlight')
            => (worker.state = "emitted" /\ duplicate_groups' = worker.result)]_vars

C28_Witness ==
    /\ worker.state = "running"
    /\ ~detect_enabled
    /\ pc = "idle"
    /\ duplicate_groups # <<>>

-----------------------------------------------------------------------------
(* The cleanup button and the record of generated files *)

\* C29 as stated: with no handler running, the cleanup button is enabled
\* exactly when generated_files is not empty, after any sequence of
\* export_results, cleanup_generated_files and clear_list
C29_CleanupButtonTracksRecord ==
    pc = "idle" => (cleanup_enabled <=> generated_files # <<>>)

-----------------------------------------------------------------------------
(* Input order in the output of find_duplicate_groups *)

RECURSIVE InOrderOf(_, _)
\* the members of group occur in paths in the same order (as a subsequence)
InOrderOf(group, paths) ==
    IF group = <<>> THEN TRUE
    ELSE IF paths = <<>> THEN FALSE
    ELSE IF Head(group) = Head(paths) THEN InOrderOf(Tail(group), Tail(paths))
    ELSE InOrderOf(group, Tail(paths))

\* C30: in the list find_duplicate_groups returns, the first member of every
\* group is its representative (the group is kept under that member's hash),
\* the members of a group are in input order, and the groups are ordered by
\* the input position of their first members
C30_OutputPreservesInputOrder ==
    run_pc = "done" =>
        /\ \A g \in 1 .. Len(run_result) :
              /\ \E k \in 1 .. Len(hash_groups) :
                    /\ hash_groups[k].members = run_result[g]
                    /\ hash_groups[k].key = run_hashes[run_result[g][1]]
              /\ InOrderOf(run_result[g], run_paths)
        /\ \A g, h \in 1 .. Len(run_result) :
              g < h => FirstAt(run_paths, run_result[g][1])
                           < FirstAt(run_paths, run_result[h][1])

\* a run that returns two groups whose members are interleaved in the input
C30_Witness ==
    /\ run_pc = "done"
    /\ run_paths = <<"a", "c", "b", "c">>
    /\ run_result = <<(<<"a", "b">>), (<<"c", "c">>)>>

====
